---- MODULE Spec2Model ----
(***************************************************************************)
(* The school-management REST backend of trio-homework-app.                *)
(*                                                                         *)
(* Two builds of the same REST surface are modelled:                       *)
(*   app = "index.js"   the in-process build (isPersistent is the constant *)
(*                      false; every helper works on the `data` object),   *)
(*   app = "server.js"  the store-backed build: with isPersistent = TRUE   *)
(*                      every helper goes to the document store `db` and   *)
(*                      the blob store, with isPersistent = FALSE          *)
(*                      (initialisation failed) it falls back to `data`.   *)
(*                                                                         *)
(* A handler that only touches `data` runs to completion within one turn   *)
(* of the event loop (its awaits resolve in microtasks), so it is one      *)
(* action.  A handler of the store-backed build suspends at every call of  *)
(* the document store; it is one action per store call, and the calls of   *)
(* different requests interleave.  The document store may become           *)
(* unreachable and reachable again at any time (dbUp), and so may the blob *)
(* store (storageUp); a call that settles while its store is unreachable   *)
(* rejects.                                                                *)
(***************************************************************************)
EXTENDS Integers, Sequences, FiniteSets, TLC

VARIABLES
    app,          \* which build runs: "index.js" or "server.js"
    isPersistent, \* server.js:19,38 / index.js:11
    data,         \* the in-process `data` object (index.js:14, server.js:22)
    db,           \* the document store: collections users, tasks, announcements,
                  \* uploads (documents ordered by document id) and settings/school
    now,          \* the wall clock read by Date.now()
    bucket,       \* the blob store (server.js:18,37): the names of the stored objects
    dbUp,         \* the document store answers; when FALSE its calls reject
    storageUp,    \* the blob store answers; when FALSE its calls reject
    procs,        \* requests of the store-backed build suspended at a store call
    last          \* the last completed exchange: request, status, body

vars == <<app, isPersistent, data, db, bucket, dbUp, storageUp, now, procs, last>>

build == <<app, isPersistent>>      \* fixed when the module is loaded
outages == <<dbUp, storageUp>>      \* the environment

-----------------------------------------------------------------------------
(* Bounds of the model *)

MaxTicks == 1          \* the clock takes the values FirstMs .. FirstMs + MaxTicks
MaxTeachers == 3       \* teachers (documents of users) stored at most
MaxTasks == 2          \* tasks stored at most
MaxAnnouncements == 1  \* announcements stored at most
MaxUploads == 1        \* uploads stored at most

-----------------------------------------------------------------------------
(* JavaScript values *)

\* The value `undefined`: a missing body field, query parameter or property.
Undefined == "#undefined"

\* JavaScript truthiness of a string or undefined: `!v` holds for undefined and ''.
Falsy(v) == v = Undefined \/ v = ""

\* String(v) for a string or undefined.
String(v) == IF v = Undefined THEN "undefined" ELSE v

\* v || w
OrElse(v, w) == IF Falsy(v) THEN w ELSE v

\* String.prototype.toUpperCase on the class letters that occur.
toUpperCase(s) ==
    CASE s = "a" -> "A"
      [] s = "b" -> "B"
      [] s = "all" -> "ALL"
      [] s = "All" -> "ALL"
      [] OTHER -> s

\* originalname.replace(/ /g, '_') on the file names that occur.
replaceSpaces(s) ==
    CASE s = "my notes.pdf" -> "my_notes.pdf"
      [] OTHER -> s

\* Object.assign(a, b) / { ...a, ...b }: b's properties over a's.
ObjectAssign(a, b) ==
    [k \in (DOMAIN a) \cup (DOMAIN b) |-> IF k \in DOMAIN b THEN b[k] ELSE a[k]]

\* const { password: _, ...rest } = user
WithoutKey(o, key) == [k \in (DOMAIN o) \ {key} |-> o[k]]

\* Array.prototype.findIndex(x => x[key] === v): the first index whose element has
\* that property value, 0 if none (JavaScript's -1).
findIndex(s, key, v) ==
    IF \E i \in 1..Len(s) : s[i][key] = v
    THEN CHOOSE i \in 1..Len(s) : s[i][key] = v /\ \A j \in 1..(i - 1) : s[j][key] # v
    ELSE 0

\* Array.prototype.find(x => x[key] === v) as a sequence: <<the first match>>, or
\* <<>> for undefined.
find(s, key, v) == IF findIndex(s, key, v) = 0 THEN <<>> ELSE <<s[findIndex(s, key, v)]>>

\* Array.prototype.filter, given the indexes the callback accepts: the elements at
\* these indexes, in order.
filter(s, accepted) ==
    LET nth(k) == CHOOSE i \in accepted : Cardinality({j \in accepted : j < i}) = k - 1
    IN  [k \in 1..Cardinality(accepted) |-> s[nth(k)]]

\* Array.prototype.splice(index, 1)
splice1(s, index) == [i \in 1..(Len(s) - 1) |-> IF i < index THEN s[i] ELSE s[i + 1]]

\* Date.now().toString()
NowString(t) == ToString(t)

\* new Date().toISOString()
toISOString(t) == "T" \o ToString(t) \o "Z"

-----------------------------------------------------------------------------
(* The in-process store: the helpers as they work on `data` *)

\* index.js:14-21, server.js:22-29
InitialData ==
    [teachers |-> <<[id |-> "1", name |-> "Default Teacher",
                     email |-> "teacher@school.com", password |-> "password123"]>>,
     tasks |-> <<>>,
     announcements |-> <<>>,
     uploads |-> <<>>,
     school |-> [schoolName |-> "Trio Primary School", schoolLogo |-> "/logos/default.png"]]

getSchoolData(d) == d.school

updateSchoolData(d, updates) == [d EXCEPT !.school = ObjectAssign(@, updates)]

getTeacherByEmail(d, email) == find(d.teachers, "email", email)

addTeacher(d, newTeacher) == [d EXCEPT !.teachers = Append(@, newTeacher)]

getCollectionData(d, collectionName) == d[collectionName]

addToCollection(d, collectionName, newItem) ==
    [d EXCEPT ![collectionName] = Append(@, newItem)]

\* data[collectionName] is undefined for a name that is no property of data, and
\* .find on it throws a TypeError.
Throws(d, collectionName) == collectionName \notin DOMAIN d

\* updateCollectionItem assigning to a copy of the item: the array keeps the old one.
updateCollectionItemOnCopy(d, collectionName, itemId, updates) == d

updateCollectionItem(d, collectionName, itemId, updates) ==
    LET i == findIndex(d[collectionName], "id", itemId)
    IN  IF i = 0 THEN d
        ELSE [d EXCEPT ![collectionName][i] = ObjectAssign(@, updates)]

deleteCollectionItem(d, collectionName, itemId) ==
    LET index == findIndex(d[collectionName], "id", itemId)
    IN  IF index > 0 THEN [d EXCEPT ![collectionName] = splice1(@, index)]
        ELSE d

-----------------------------------------------------------------------------
(* The document store and the blob store of server.js (isPersistent = TRUE) *)

\* The admin SDK refuses `undefined` as a field value (set and update reject).
HasUndefined(o) ==
    \E k \in DOMAIN o :
        CASE k = "teacher" -> \E f \in DOMAIN o[k] : o[k][f] = Undefined
          [] k = "done" -> FALSE
          [] OTHER -> o[k] = Undefined

\* Document ids are the clock strings; a collection snapshot lists the documents
\* by document id.
FirstMs == 1000
ClockRange == FirstMs..(FirstMs + MaxTicks)
IdRank(id) == CHOOSE t \in ClockRange : NowString(t) = id

\* server.js:17,35: the store before any request: no document at all.
InitialDb ==
    [users |-> <<>>, tasks |-> <<>>, announcements |-> <<>>, uploads |-> <<>>,
     school |-> [exists |-> FALSE, fields |-> [k \in {} |-> Undefined]]]

\* db.collection(c).doc(id).get().exists
DocExists(store, c, id) == \E i \in 1..Len(store[c]) : store[c][i].id = id

\* db.collection(c).doc(item.id).set(item): replaces the document of that id, or
\* adds it at its place in document-id order.
DocSet(store, c, item) ==
    IF DocExists(store, c, item.id)
    THEN [store EXCEPT ![c] = [i \in 1..Len(@) |-> IF @[i].id = item.id THEN item ELSE @[i]]]
    ELSE LET docs == store[c]
             before == filter(docs, {i \in 1..Len(docs) : IdRank(docs[i].id) < IdRank(item.id)})
             after == filter(docs, {i \in 1..Len(docs) : IdRank(docs[i].id) > IdRank(item.id)})
         IN  [store EXCEPT ![c] = before \o <<item>> \o after]

\* db.collection(c).doc(id).update(updates), for an existing document.
DocUpdate(store, c, id, updates) ==
    [store EXCEPT ![c] = [i \in 1..Len(@) |->
        IF @[i].id = id THEN ObjectAssign(@[i], updates) ELSE @[i]]]

\* db.collection(c).doc(id).delete(): no error for a missing document.
DocDelete(store, c, id) ==
    [store EXCEPT ![c] = filter(@, {i \in 1..Len(@) : @[i].id # id})]

\* server.js:78-79: snapshot.docs.map(doc => ({ ...doc.data(), id: doc.id }))
dbGetCollectionData(store, collectionName) ==
    [i \in 1..Len(store[collectionName]) |->
        ObjectAssign(store[collectionName][i], [id |-> store[collectionName][i].id])]

\* server.js:67-68: where('email', '==', email).limit(1), <<>> for null.
dbGetTeacherByEmail(store, email) ==
    LET doc == find(store.users, "email", email)
    IN  IF doc = <<>> THEN <<>>
        ELSE <<ObjectAssign(doc[1], [id |-> doc[1].id])>>

\* server.js:59: db.doc('settings/school').set(updates, { merge: true })
SettingsMerge(store, updates) ==
    [store EXCEPT !.school = [exists |-> TRUE, fields |-> ObjectAssign(@.fields, updates)]]

\* server.js:54: docRef.set(data.school)
SettingsSet(store, school) ==
    [store EXCEPT !.school = [exists |-> TRUE, fields |-> school]]

-----------------------------------------------------------------------------
(* Requests, responses and suspended handlers *)

Idle == [pc |-> "idle"]

\* res.json(body) / res.status(s).json(body): the exchange is complete.
Respond(req, status, body) ==
    last' = [seq |-> 1 - last.seq, req |-> req, status |-> status, body |-> body]

\* The handler's promise rejects outside any try block: Express 4 does not see
\* the rejection, so no response is ever written for the request.
Unhandled(req) ==
    last' = [seq |-> 1 - last.seq, req |-> req, status |-> 0,
             body |-> [unhandledRejection |-> TRUE]]

\* The handler of p suspends at a store call.
Suspend(p, frame) == procs' = [procs EXCEPT ![p] = frame]
Finish(p) == procs' = [procs EXCEPT ![p] = Idle]

At(p, pc) == procs[p].pc = pc

\* Date.now() is read: the clock has not gone back since the last reading.
ReadClock(t) == /\ t \in now..(now + 1)
                /\ t \in ClockRange
                /\ now' = t

\* The state once the module is loaded, with the request slots P.
InitWith(P) ==
    /\ \/ app = "index.js" /\ isPersistent = FALSE
       \/ app = "server.js" /\ isPersistent \in BOOLEAN
    /\ data = InitialData
    /\ db = InitialDb
    /\ bucket = {}
    /\ dbUp = TRUE
    /\ storageUp = TRUE
    /\ now = FirstMs
    /\ procs = [p \in P |-> Idle]
    /\ last = [seq |-> 0, req |-> [op |-> "none"], status |-> 0, body |-> [none |-> TRUE]]

\* One request at a time / two requests in flight.
Init == InitWith({"r1"})
InitConcurrent == InitWith({"r1", "r2"})

Slots == DOMAIN procs

-----------------------------------------------------------------------------
(* Teachers: register, login, reset password *)

Emails == {"teacher@school.com", "a@x.com"}
Passwords == {"password123", "p"}

RegisterBodies ==
    [name : {"A"}, email : Emails \cup {"b@x.com"}, password : {"p"}]
    \cup {[name |-> Undefined, email |-> "a@x.com", password |-> "p"],
          [name |-> "A", email |-> Undefined, password |-> "p"],
          [name |-> "A", email |-> "a@x.com", password |-> ""]}
LoginBodies == [email : Emails, password : Passwords \cup {Undefined}]
ResetBodies == [email : Emails, newPassword : {"p", "q", Undefined}]
                \cup {[email |-> "c@x.com", newPassword |-> "p"]}

\* index.js:132, server.js:200
NewTeacher(body, t) ==
    [id |-> NowString(t), name |-> body.name, email |-> body.email,
     password |-> body.password]

\* index.js:127, server.js:194
RegisterInvalid(body) == Falsy(body.name) \/ Falsy(body.email) \/ Falsy(body.password)

\* LoginBody without the destructuring that drops the password.
LoginBodyLeaky(user, password) ==
    IF user = <<>> \/ user[1].password # password
    THEN [error |-> "Invalid credentials"]
    ELSE [user |-> user[1]]

\* LoginBody with a message of its own for an unknown email.
LoginBodyRevealing(user, password) ==
    IF user = <<>> THEN [error |-> "No such user"]
    ELSE IF user[1].password # password THEN [error |-> "Invalid credentials"]
    ELSE [user |-> WithoutKey(user[1], "password")]

\* index.js:141-145, server.js:209-213: the body of the login response.
LoginBody(user, password) ==
    IF user = <<>> \/ user[1].password # password
    THEN [error |-> "Invalid credentials"]
    ELSE [user |-> WithoutKey(user[1], "password")]

\* The collection name reset-password passes to updateCollectionItem.
ResetCollection == IF app = "index.js" THEN "teachers" ELSE "users"

ResetMessage(email) == [message |-> "Password for " \o String(email) \o " reset successfully!"]
ResetFailed == [error |-> "Failed to reset password due to a server error."]

\* POST /api/register (index.js:125-135, server.js:192-203).  On `data` the whole
\* handler; on the document store up to the call of getTeacherByEmail.
Register(p, req) ==
    /\ At(p, "idle")
    /\ UNCHANGED <<build, outages, db, bucket>>
    /\ IF RegisterInvalid(req)
       THEN /\ Respond(req, 200, [error |-> "Fill all fields"])
            /\ UNCHANGED <<data, now, procs>>
       ELSE \/ /\ ~isPersistent
               /\ UNCHANGED procs
               /\ IF getTeacherByEmail(data, req.email) # <<>>
                  THEN /\ Respond(req, 200, [error |-> "Email already exists"])
                       /\ UNCHANGED <<data, now>>
                  ELSE /\ Len(data.teachers) < MaxTeachers
                       /\ \E t \in ClockRange :
                           /\ ReadClock(t)
                           /\ data' = addTeacher(data, NewTeacher(req, t))
                       /\ Respond(req, 200, [message |-> "Teacher registered!"])
            \/ /\ isPersistent
               /\ Suspend(p, [pc |-> "register.getTeacherByEmail", req |-> req])
               /\ UNCHANGED <<data, now, last>>

\* server.js:196-201: getTeacherByEmail settles; no try block around it.
RegisterLookup(p) ==
    /\ At(p, "register.getTeacherByEmail")
    /\ UNCHANGED <<build, outages, data, db, bucket>>
    /\ LET req == procs[p].req
       IN  \/ /\ ~dbUp
              /\ Unhandled(req)
              /\ Finish(p)
              /\ UNCHANGED now
           \/ /\ dbUp
              /\ dbGetTeacherByEmail(db, req.email) # <<>>
              /\ Respond(req, 200, [error |-> "Email already exists"])
              /\ Finish(p)
              /\ UNCHANGED now
           \/ /\ dbUp
              /\ dbGetTeacherByEmail(db, req.email) = <<>>
              /\ Len(db.users) < MaxTeachers
              /\ \E t \in ClockRange :
                  /\ ReadClock(t)
                  /\ Suspend(p, [pc |-> "register.addTeacher", req |-> req,
                                 newTeacher |-> NewTeacher(req, t)])
              /\ UNCHANGED last

\* server.js:201-202: addTeacher settles; no try block around it.
RegisterInsert(p) ==
    /\ At(p, "register.addTeacher")
    /\ UNCHANGED <<build, outages, data, bucket, now>>
    /\ Finish(p)
    /\ LET req == procs[p].req
       IN  \/ /\ ~dbUp
              /\ Unhandled(req)
              /\ UNCHANGED db
           \/ /\ dbUp
              /\ db' = DocSet(db, "users", procs[p].newTeacher)
              /\ Respond(req, 200, [message |-> "Teacher registered!"])

\* POST /api/login (index.js:137-146, server.js:205-214).
Login(p, req) ==
    /\ At(p, "idle")
    /\ UNCHANGED <<build, outages, data, db, bucket, now>>
    /\ \/ /\ ~isPersistent
          /\ Respond(req, 200, LoginBody(getTeacherByEmail(data, req.email), req.password))
          /\ UNCHANGED procs
       \/ /\ isPersistent
          /\ Suspend(p, [pc |-> "login.getTeacherByEmail", req |-> req])
          /\ UNCHANGED last

\* server.js:207-213: getTeacherByEmail settles; no try block around it.
LoginLookup(p) ==
    /\ At(p, "login.getTeacherByEmail")
    /\ UNCHANGED <<build, outages, data, db, bucket, now>>
    /\ Finish(p)
    /\ LET req == procs[p].req
       IN  \/ ~dbUp /\ Unhandled(req)
           \/ dbUp /\ Respond(req, 200, LoginBody(dbGetTeacherByEmail(db, req.email), req.password))

\* POST /api/admin/reset-teacher-password (index.js:108-122, server.js:175-189).
ResetPassword(p, req) ==
    /\ At(p, "idle")
    /\ UNCHANGED <<build, outages, db, bucket, now>>
    /\ \/ /\ ~isPersistent
          /\ UNCHANGED procs
          /\ LET teacher == getTeacherByEmail(data, req.email)
             IN  IF teacher = <<>>
                 THEN /\ Respond(req, 200, [error |-> "Teacher not found"])
                      /\ UNCHANGED data
                 ELSE IF Throws(data, ResetCollection)
                 THEN /\ Respond(req, 500, ResetFailed)
                      /\ UNCHANGED data
                 ELSE /\ data' = updateCollectionItem(data, ResetCollection, teacher[1].id,
                                                      [password |-> req.newPassword])
                      /\ Respond(req, 200, ResetMessage(req.email))
       \/ /\ isPersistent
          /\ Suspend(p, [pc |-> "reset.getTeacherByEmail", req |-> req])
          /\ UNCHANGED <<data, last>>

\* server.js:178-183: getTeacherByEmail settles inside the try block.
ResetLookup(p) ==
    /\ At(p, "reset.getTeacherByEmail")
    /\ UNCHANGED <<build, outages, data, db, bucket, now>>
    /\ LET req == procs[p].req
           teacher == dbGetTeacherByEmail(db, req.email)
       IN  \/ /\ ~dbUp
              /\ Respond(req, 500, ResetFailed)
              /\ Finish(p)
           \/ /\ dbUp
              /\ teacher = <<>>
              /\ Respond(req, 200, [error |-> "Teacher not found"])
              /\ Finish(p)
           \/ /\ dbUp
              /\ teacher # <<>>
              /\ Suspend(p, [pc |-> "reset.updateCollectionItem", req |-> req,
                             id |-> teacher[1].id])
              /\ UNCHANGED last

\* server.js:183-187: update() settles inside the try block; it rejects for a
\* missing document and for an undefined field value.
ResetUpdate(p) ==
    /\ At(p, "reset.updateCollectionItem")
    /\ UNCHANGED <<build, outages, data, bucket, now>>
    /\ Finish(p)
    /\ LET req == procs[p].req
           updates == [password |-> req.newPassword]
           rejects == ~dbUp \/ ~DocExists(db, "users", procs[p].id) \/ HasUndefined(updates)
       IN  \/ /\ rejects
              /\ Respond(req, 500, ResetFailed)
              /\ UNCHANGED db
           \/ /\ ~rejects
              /\ db' = DocUpdate(db, "users", procs[p].id, updates)
              /\ Respond(req, 200, ResetMessage(req.email))

\* The document store becomes unreachable, or reachable again.
StoreOutage == /\ isPersistent
               /\ dbUp' = ~dbUp
               /\ UNCHANGED <<build, data, db, bucket, storageUp, now, procs, last>>

\* The blob store becomes unreachable, or reachable again.
BlobOutage == /\ isPersistent
              /\ storageUp' = ~storageUp
              /\ UNCHANGED <<build, data, db, bucket, dbUp, now, procs, last>>

NextTeachers ==
    \/ StoreOutage
    \/ \E p \in Slots, req \in RegisterBodies : Register(p, [op |-> "register"] @@ req)
    \/ \E p \in Slots : RegisterLookup(p)
    \/ \E p \in Slots : RegisterInsert(p)
    \/ \E p \in Slots, req \in LoginBodies : Login(p, [op |-> "login"] @@ req)
    \/ \E p \in Slots : LoginLookup(p)
    \/ \E p \in Slots, req \in ResetBodies :
           ResetPassword(p, [op |-> "reset-teacher-password"] @@ req)
    \/ \E p \in Slots : ResetLookup(p)
    \/ \E p \in Slots : ResetUpdate(p)

SpecTeachers == Init /\ [][NextTeachers]_vars

-----------------------------------------------------------------------------
(* Tasks and announcements *)

\* o?.k, and a destructured body field: undefined when the property is missing.
Get(o, k) == IF k \in DOMAIN o THEN o[k] ELSE Undefined

\* A request without a teacher object.
NoTeacher == [k \in {} |-> Undefined]

\* The teacher object the front end holds after a login (more than id and name).
LoggedIn == [id |-> "1", name |-> "Default Teacher", email |-> "teacher@school.com"]

TaskBody(grade, classLetter, teacher) ==
    [grade |-> grade, classLetter |-> classLetter, subject |-> "Math",
     description |-> "p. 12", dueDate |-> "2025-01-10", teacher |-> teacher]

AnnouncementBody(grade, classLetter, teacher) ==
    [grade |-> grade, classLetter |-> classLetter, message |-> "Trip on Friday",
     teacher |-> teacher]

\* Bodies that fail the required-field check of POST /api/task.
InvalidTaskBodies ==
    {TaskBody(Undefined, "B", LoggedIn), TaskBody("5", "", LoggedIn),
     TaskBody("5", "B", NoTeacher), TaskBody("5", "B", [id |-> "1"]),
     [TaskBody("5", "B", LoggedIn) EXCEPT !.subject = Undefined]}

\* Bodies that fail the required-field check of POST /api/announcement.
InvalidAnnouncementBodies ==
    {AnnouncementBody(Undefined, "all", LoggedIn), AnnouncementBody("5", "all", NoTeacher),
     [AnnouncementBody("5", "all", LoggedIn) EXCEPT !.message = ""]}

\* CreateInvalid without the checks of the teacher object.
CreateInvalidNoTeacherCheck(c, body) ==
    IF c = "tasks"
    THEN \/ Falsy(body.grade) \/ Falsy(body.classLetter) \/ Falsy(body.subject)
         \/ Falsy(body.description) \/ Falsy(body.dueDate)
    ELSE Falsy(body.grade) \/ Falsy(body.classLetter) \/ Falsy(body.message)

\* index.js:151,219 / server.js:219,289: the required-field checks.
CreateInvalid(c, body) ==
    IF c = "tasks"
    THEN \/ Falsy(body.grade) \/ Falsy(body.classLetter) \/ Falsy(body.subject)
         \/ Falsy(body.description) \/ Falsy(body.dueDate)
         \/ Falsy(Get(body.teacher, "id")) \/ Falsy(Get(body.teacher, "name"))
    ELSE \/ Falsy(body.grade) \/ Falsy(body.classLetter) \/ Falsy(body.message)
         \/ Falsy(Get(body.teacher, "id"))

\* index.js:155-163,221-228 / server.js:223-231,291-298: newTask, newAnnouncement.
NewItem(c, body, t) ==
    IF c = "tasks"
    THEN [id |-> NowString(t), grade |-> String(body.grade),
          classLetter |-> String(body.classLetter), subject |-> body.subject,
          description |-> body.description, dueDate |-> body.dueDate, done |-> FALSE,
          teacher |-> [id |-> Get(body.teacher, "id"), name |-> Get(body.teacher, "name")],
          createdAt |-> toISOString(t)]
    ELSE [id |-> NowString(t), grade |-> String(body.grade),
          classLetter |-> String(body.classLetter), message |-> body.message,
          teacher |-> [id |-> Get(body.teacher, "id"), name |-> Get(body.teacher, "name")],
          createdAt |-> toISOString(t)]

MaxItems(c) ==
    CASE c = "tasks" -> MaxTasks
      [] c = "announcements" -> MaxAnnouncements
      [] c = "uploads" -> MaxUploads

\* The texts of the responses.
InvalidText(c) ==
    IF c = "tasks" THEN "Missing task details or teacher info" ELSE "Missing announcement info"
AddedText(c) == IF c = "tasks" THEN "Task added!" ELSE "Announcement added!"
AddFailedText(c) ==
    IF c = "tasks" THEN "Failed to add task due to a server error."
    ELSE "Failed to add announcement due to a server error."
DeletedText(c) ==
    CASE c = "tasks" -> "Task deleted successfully!"
      [] c = "announcements" -> "Announcement deleted successfully!"
      [] c = "uploads" -> "File and metadata deleted successfully!"
DeleteFailedText(c) ==
    CASE c = "tasks" -> "Failed to delete task due to a server error."
      [] c = "announcements" -> "Failed to delete announcement due to a server error."
      [] c = "uploads" -> "Failed to delete upload due to a server error."

\* The body of a list response: a bare array for tasks and announcements,
\* { files } for uploads.
ListBody(c, items) == IF c = "uploads" THEN [files |-> items] ELSE [array |-> items]

\* POST /api/task, POST /api/announcement (index.js:149-170,217-236,
\* server.js:217-238,287-306); req.op is the collection's create operation.
Create(p, c, req) ==
    /\ At(p, "idle")
    /\ UNCHANGED <<build, outages, db, bucket>>
    /\ IF CreateInvalid(c, req)
       THEN /\ Respond(req, 200, [error |-> InvalidText(c)])
            /\ UNCHANGED <<data, now, procs>>
       ELSE \E t \in ClockRange :
            /\ ReadClock(t)
            /\ \/ /\ ~isPersistent
                  /\ Len(data[c]) < MaxItems(c)
                  /\ data' = addToCollection(data, c, NewItem(c, req, t))
                  /\ Respond(req, 200, [message |-> AddedText(c)])
                  /\ UNCHANGED procs
               \/ /\ isPersistent
                  /\ Len(db[c]) < MaxItems(c)
                  /\ Suspend(p, [pc |-> "create.addToCollection", c |-> c, req |-> req,
                                 newItem |-> NewItem(c, req, t)])
                  /\ UNCHANGED <<data, last>>

\* server.js:232-237,300-305: set() settles inside the try block.
CreateInsert(p) ==
    /\ At(p, "create.addToCollection")
    /\ UNCHANGED <<build, outages, data, bucket, now>>
    /\ Finish(p)
    /\ LET c == procs[p].c
           req == procs[p].req
           rejects == ~dbUp \/ HasUndefined(procs[p].newItem)
       IN  \/ /\ rejects
              /\ Respond(req, 500, [error |-> AddFailedText(c)])
              /\ UNCHANGED db
           \/ /\ ~rejects
              /\ db' = DocSet(db, c, procs[p].newItem)
              /\ Respond(req, 200, [message |-> AddedText(c)])

\* GET /api/tasks, GET /api/announcements (index.js:172-175,238-241,
\* server.js:240-243,308-311).
List(p, c, req) ==
    /\ At(p, "idle")
    /\ UNCHANGED <<build, outages, data, db, bucket, now>>
    /\ \/ /\ ~isPersistent
          /\ Respond(req, 200, ListBody(c, getCollectionData(data, c)))
          /\ UNCHANGED procs
       \/ /\ isPersistent
          /\ Suspend(p, [pc |-> "list.getCollectionData", c |-> c, req |-> req])
          /\ UNCHANGED last

\* server.js:241-242,309-310: get() settles; no try block around it.
ListGet(p) ==
    /\ At(p, "list.getCollectionData")
    /\ UNCHANGED <<build, outages, data, db, bucket, now>>
    /\ Finish(p)
    /\ \/ ~dbUp /\ Unhandled(procs[p].req)
       \/ dbUp /\ Respond(procs[p].req, 200,
                          ListBody(procs[p].c, dbGetCollectionData(db, procs[p].c)))

\* StudentMatch comparing the class letter as written.
StudentMatchCaseSensitive(r, grade, classLetter) ==
    /\ r.grade = grade \/ r.grade = "all"
    /\ r.classLetter = OrElse(classLetter, "") \/ r.classLetter = "all"

\* index.js:181-184,247-250,301-304 / server.js:249-252,317-320,395-398: the
\* callback of the student filters.
StudentMatch(r, grade, classLetter) ==
    /\ r.grade = grade \/ r.grade = "all"
    /\ \/ toUpperCase(r.classLetter) = toUpperCase(OrElse(classLetter, ""))
       \/ r.classLetter = "all"

StudentFilter(items, grade, classLetter) ==
    filter(items, {i \in 1..Len(items) : StudentMatch(items[i], grade, classLetter)})

\* GET /api/tasks/student, /api/announcements/student, /api/uploads/student
\* (index.js:177-186,243-252,297-306, server.js:245-254,313-322,391-400).
ListStudent(p, c, req) ==
    /\ At(p, "idle")
    /\ UNCHANGED <<build, outages, data, db, bucket, now>>
    /\ \/ /\ ~isPersistent
          /\ Respond(req, 200, ListBody(c, StudentFilter(getCollectionData(data, c),
                                                         req.grade, req.classLetter)))
          /\ UNCHANGED procs
       \/ /\ isPersistent
          /\ Suspend(p, [pc |-> "listStudent.getCollectionData", c |-> c, req |-> req])
          /\ UNCHANGED last

\* server.js:247-253,315-321,393-399: get() settles; no try block around it.
ListStudentGet(p) ==
    /\ At(p, "listStudent.getCollectionData")
    /\ UNCHANGED <<build, outages, data, db, bucket, now>>
    /\ Finish(p)
    /\ LET c == procs[p].c
           req == procs[p].req
       IN  \/ ~dbUp /\ Unhandled(req)
           \/ dbUp /\ Respond(req, 200, ListBody(c, StudentFilter(dbGetCollectionData(db, c),
                                                                  req.grade, req.classLetter)))

\* TaskUpdated echoing the value the task had.
TaskUpdatedStale(done) == [message |-> "Task updated!", done |-> ~done]

TaskUpdated(done) == [message |-> "Task updated!", done |-> done]
ToggleFailed == [error |-> "Failed to update task status."]

\* PUT /api/task/:id/done (index.js:188-204, server.js:256-273).
ToggleDone(p, req) ==
    /\ At(p, "idle")
    /\ UNCHANGED <<build, outages, db, bucket, now>>
    /\ \/ /\ ~isPersistent
          /\ UNCHANGED procs
          /\ LET task == find(getCollectionData(data, "tasks"), "id", req.id)
             IN  IF task = <<>>
                 THEN /\ Respond(req, 200, [error |-> "Task not found"])
                      /\ UNCHANGED data
                 ELSE /\ data' = updateCollectionItem(data, "tasks", req.id,
                                                      [done |-> ~task[1].done])
                      /\ Respond(req, 200, TaskUpdated(~task[1].done))
       \/ /\ isPersistent
          /\ Suspend(p, [pc |-> "toggle.getCollectionData", req |-> req])
          /\ UNCHANGED <<data, last>>

\* server.js:261-267: get() settles inside the try block.
ToggleDoneGet(p) ==
    /\ At(p, "toggle.getCollectionData")
    /\ UNCHANGED <<build, outages, data, db, bucket, now>>
    /\ LET req == procs[p].req
           task == find(dbGetCollectionData(db, "tasks"), "id", req.id)
       IN  \/ /\ ~dbUp
              /\ Respond(req, 500, ToggleFailed)
              /\ Finish(p)
           \/ /\ dbUp
              /\ task = <<>>
              /\ Respond(req, 200, [error |-> "Task not found"])
              /\ Finish(p)
           \/ /\ dbUp
              /\ task # <<>>
              /\ Suspend(p, [pc |-> "toggle.updateCollectionItem", req |-> req,
                             newDoneState |-> ~task[1].done])
              /\ UNCHANGED last

\* The write of toggle-done as a set() with merge, which creates the document
\* when it is missing.
ToggleDoneUpsert(p) ==
    /\ At(p, "toggle.updateCollectionItem")
    /\ UNCHANGED <<build, outages, data, bucket, now>>
    /\ Finish(p)
    /\ LET req == procs[p].req
           updates == [done |-> procs[p].newDoneState]
       IN  \/ /\ ~dbUp
              /\ Respond(req, 500, ToggleFailed)
              /\ UNCHANGED db
           \/ /\ dbUp
              /\ db' = IF DocExists(db, "tasks", req.id)
                       THEN DocUpdate(db, "tasks", req.id, updates)
                       ELSE DocSet(db, "tasks", [id |-> req.id] @@ updates)
              /\ Respond(req, 200, TaskUpdated(procs[p].newDoneState))

\* server.js:267-272: update() settles inside the try block; it rejects for a
\* document that is no longer there.
ToggleDoneUpdate(p) ==
    /\ At(p, "toggle.updateCollectionItem")
    /\ UNCHANGED <<build, outages, data, bucket, now>>
    /\ Finish(p)
    /\ LET req == procs[p].req
           rejects == ~dbUp \/ ~DocExists(db, "tasks", req.id)
       IN  \/ /\ rejects
              /\ Respond(req, 500, ToggleFailed)
              /\ UNCHANGED db
           \/ /\ ~rejects
              /\ db' = DocUpdate(db, "tasks", req.id, [done |-> procs[p].newDoneState])
              /\ Respond(req, 200, TaskUpdated(procs[p].newDoneState))

\* DELETE /api/task/:id, DELETE /api/announcement/:id, and index.js's
\* DELETE /api/upload/:id (index.js:206-214,254-262,309-321, server.js:276-284,
\* 325-333).
Delete(p, c, req) ==
    /\ At(p, "idle")
    /\ UNCHANGED <<build, outages, db, bucket, now>>
    /\ \/ /\ ~isPersistent
          /\ data' = deleteCollectionItem(data, c, req.id)
          /\ Respond(req, 200, [message |-> DeletedText(c)])
          /\ UNCHANGED procs
       \/ /\ isPersistent
          /\ c # "uploads"
          /\ Suspend(p, [pc |-> "delete.deleteCollectionItem", c |-> c, req |-> req])
          /\ UNCHANGED <<data, last>>

\* server.js:105-110 with 278-283, 327-332, 430-436: delete() settles; the
\* helper rethrows a rejection and the handler's try block answers 500.
DeleteDelete(p) ==
    /\ At(p, "delete.deleteCollectionItem")
    /\ UNCHANGED <<build, outages, data, bucket, now>>
    /\ Finish(p)
    /\ LET c == procs[p].c
           req == procs[p].req
       IN  \/ /\ ~dbUp
              /\ Respond(req, 500, [error |-> DeleteFailedText(c)])
              /\ UNCHANGED db
           \/ /\ dbUp
              /\ db' = DocDelete(db, c, req.id)
              /\ Respond(req, 200, [message |-> DeletedText(c)])

-----------------------------------------------------------------------------
(* Uploads *)

\* req.file when the multipart body carries no file.
NoFile == [k \in {} |-> Undefined]
UploadedFile(originalname) == [originalname |-> originalname]

\* index.js:270, server.js:340: the placeholder URL.
MockFileUrl(originalname, t) ==
    "https://mock-storage-non-persistent.com/files/" \o replaceSpaces(originalname)
        \o "-" \o ToString(t)

\* server.js:344: the object name of an upload.
UploadObjectName(originalname, t) ==
    "uploads/" \o ToString(t) \o "-" \o replaceSpaces(originalname)

\* server.js:37: the default bucket of the project (its name is configuration).
BucketName == "bucket"

\* server.js:355-358: the URL getSignedUrl gives for an object of the bucket.
SignedUrl(objectName) ==
    "https://storage.googleapis.com/" \o BucketName \o "/" \o objectName
        \o "?GoogleAccessId=sa&Expires=16447017600&Signature=sig"

FileNames == {"my notes.pdf"}
ObjectNames == {UploadObjectName(n, t) : n \in FileNames, t \in ClockRange}

\* server.js:413-415,418: the object name delete-upload derives from the stored
\* URL: the pathname from lastIndexOf('/o/') + 3 on.  No pathname here contains
\* '/o/', lastIndexOf gives -1, and the name is the pathname without its first two
\* characters.
StorageKey(url) ==
    IF \E o \in ObjectNames : url = SignedUrl(o)
    THEN "ucket/" \o (CHOOSE o \in ObjectNames : url = SignedUrl(o))
    ELSE LET nt == CHOOSE nt \in FileNames \X ClockRange : url = MockFileUrl(nt[1], nt[2])
         IN  "iles/" \o replaceSpaces(nt[1]) \o "-" \o ToString(nt[2])

\* index.js:272-280, server.js:366-374
NewUpload(body, fileUrl, t) ==
    [id |-> NowString(t), teacherId |-> String(body.teacherId), filename |-> fileUrl,
     originalName |-> body.file.originalname,
     grade |-> String(OrElse(body.grade, "all")),
     classLetter |-> String(OrElse(body.classLetter, "all")),
     uploadedAt |-> toISOString(t)]

\* index.js:267, server.js:338
UploadInvalid(body) == body.file = NoFile \/ Falsy(body.teacherId)

UploadFailed == [error |-> "Failed to save file metadata to database."]
UploadDone == [message |-> "File uploaded successfully!"]

\* POST /api/upload (index.js:265-288, server.js:336-382).
Upload(p, req) ==
    /\ At(p, "idle")
    /\ UNCHANGED <<build, outages, db, bucket>>
    /\ IF UploadInvalid(req)
       THEN /\ Respond(req, 200, [error |-> "File and teacherId required"])
            /\ UNCHANGED <<data, now, procs>>
       ELSE \E t \in ClockRange :
            /\ ReadClock(t)
            /\ \/ /\ ~isPersistent
                  /\ Len(data.uploads) < MaxUploads
                  /\ data' = addToCollection(data, "uploads",
                                 NewUpload(req, MockFileUrl(req.file.originalname, t), t))
                  /\ Respond(req, 200, UploadDone)
                  /\ UNCHANGED procs
               \/ /\ isPersistent
                  /\ Len(db.uploads) < MaxUploads
                  /\ Suspend(p, [pc |-> "upload.save", req |-> req,
                                 fileUrl |-> MockFileUrl(req.file.originalname, t),
                                 filename |-> UploadObjectName(req.file.originalname, t)])
                  /\ UNCHANGED <<data, last>>

\* server.js:348-352,360-374: file.save settles; a rejection is caught, the
\* placeholder URL stays and the handler goes on to the metadata.
UploadSave(p) ==
    /\ At(p, "upload.save")
    /\ UNCHANGED <<build, outages, data, db, last>>
    /\ \/ /\ storageUp
          /\ bucket' = bucket \cup {procs[p].filename}
          /\ Suspend(p, [procs[p] EXCEPT !.pc = "upload.getSignedUrl"])
          /\ UNCHANGED now
       \/ /\ ~storageUp
          /\ UNCHANGED bucket
          /\ \E t \in ClockRange :
              /\ ReadClock(t)
              /\ Suspend(p, [pc |-> "upload.addToCollection", req |-> procs[p].req,
                             newUpload |-> NewUpload(procs[p].req, procs[p].fileUrl, t)])

\* server.js:355-374: getSignedUrl settles.
UploadSign(p) ==
    /\ At(p, "upload.getSignedUrl")
    /\ UNCHANGED <<build, outages, data, db, bucket, last>>
    /\ \E t \in ClockRange :
        /\ ReadClock(t)
        /\ LET fileUrl == IF storageUp THEN SignedUrl(procs[p].filename) ELSE procs[p].fileUrl
           IN  Suspend(p, [pc |-> "upload.addToCollection", req |-> procs[p].req,
                           newUpload |-> NewUpload(procs[p].req, fileUrl, t)])

\* server.js:376-381: set() settles inside the try block.
UploadInsert(p) ==
    /\ At(p, "upload.addToCollection")
    /\ UNCHANGED <<build, outages, data, bucket, now>>
    /\ Finish(p)
    /\ \/ /\ ~dbUp
          /\ Respond(procs[p].req, 500, UploadFailed)
          /\ UNCHANGED db
       \/ /\ dbUp
          /\ db' = DocSet(db, "uploads", procs[p].newUpload)
          /\ Respond(procs[p].req, 200, UploadDone)

\* index.js:293, server.js:387: the callback of the teacher filter.
TeacherFilter(items, teacherId) ==
    filter(items, {i \in 1..Len(items) : Falsy(teacherId) \/ items[i].teacherId = teacherId})

\* GET /api/uploads (index.js:290-295, server.js:384-389).
ListUploads(p, req) ==
    /\ At(p, "idle")
    /\ UNCHANGED <<build, outages, data, db, bucket, now>>
    /\ \/ /\ ~isPersistent
          /\ Respond(req, 200, [files |-> TeacherFilter(getCollectionData(data, "uploads"),
                                                        req.teacherId)])
          /\ UNCHANGED procs
       \/ /\ isPersistent
          /\ Suspend(p, [pc |-> "listUploads.getCollectionData", req |-> req])
          /\ UNCHANGED last

\* server.js:385-388: get() settles; no try block around it.
ListUploadsGet(p) ==
    /\ At(p, "listUploads.getCollectionData")
    /\ UNCHANGED <<build, outages, data, db, bucket, now>>
    /\ Finish(p)
    /\ \/ ~dbUp /\ Unhandled(procs[p].req)
       \/ dbUp /\ Respond(procs[p].req, 200,
                          [files |-> TeacherFilter(dbGetCollectionData(db, "uploads"),
                                                   procs[p].req.teacherId)])

\* DELETE /api/upload/:id of server.js (403-437) on the document store: up to the
\* call of getCollectionData.  (On `data` the handler reads the array, skips the
\* blob and deletes: the action Delete.)
DeleteUpload(p, req) ==
    /\ At(p, "idle")
    /\ isPersistent
    /\ Suspend(p, [pc |-> "deleteUpload.getCollectionData", req |-> req])
    /\ UNCHANGED <<build, outages, data, db, bucket, now, last>>

\* server.js:408-411: get() settles inside the outer try block.
DeleteUploadGet(p) ==
    /\ At(p, "deleteUpload.getCollectionData")
    /\ UNCHANGED <<build, outages, data, db, bucket, now>>
    /\ LET req == procs[p].req
           fileMetadata == find(dbGetCollectionData(db, "uploads"), "id", req.id)
       IN  \/ /\ ~dbUp
              /\ Respond(req, 500, [error |-> DeleteFailedText("uploads")])
              /\ Finish(p)
           \/ /\ dbUp
              /\ fileMetadata # <<>>
              /\ Suspend(p, [pc |-> "deleteUpload.storageDelete", req |-> req,
                             key |-> StorageKey(fileMetadata[1].filename)])
              /\ UNCHANGED last
           \/ /\ dbUp
              /\ fileMetadata = <<>>
              /\ Suspend(p, [pc |-> "delete.deleteCollectionItem", c |-> "uploads",
                             req |-> req])
              /\ UNCHANGED last

\* server.js:412-430: storage.file(name).delete() settles; the inner try block
\* swallows a rejection (store unreachable, or no such object).
DeleteUploadBlob(p) ==
    /\ At(p, "deleteUpload.storageDelete")
    /\ UNCHANGED <<build, outages, data, db, now, last>>
    /\ bucket' = IF storageUp THEN bucket \ {procs[p].key} ELSE bucket
    /\ Suspend(p, [pc |-> "delete.deleteCollectionItem", c |-> "uploads",
                   req |-> procs[p].req])

-----------------------------------------------------------------------------
(* School settings *)

LogoFailedUrl(t) == "https://mock-storage-failed.com/logos/logo-" \o ToString(t)
LogoMockUrl(originalname, t) ==
    "https://mock-storage-non-persistent.com/logos/logo-" \o ToString(t) \o "-" \o originalname
LogoObjectName(originalname, t) ==
    "logos/" \o ToString(t) \o "-" \o replaceSpaces(originalname)

\* index.js:89-92, server.js:132-135: updates, before the logo.
NameUpdates(body) ==
    IF Falsy(body.schoolName) THEN [k \in {} |-> Undefined]
    ELSE [schoolName |-> body.schoolName]

FetchFailed == [error |-> "Failed to fetch school data"]
UpdateFailed == [error |-> "Failed to update school data"]
SchoolUpdated(school) == [message |-> "School info updated", school |-> school]

\* GET /api/school-info (index.js:78-85, server.js:121-128).
GetSchoolInfo(p, req) ==
    /\ At(p, "idle")
    /\ UNCHANGED <<build, outages, data, db, bucket, now>>
    /\ \/ /\ ~isPersistent
          /\ Respond(req, 200, getSchoolData(data))
          /\ UNCHANGED procs
       \/ /\ isPersistent
          /\ Suspend(p, [pc |-> "schoolInfo.get", req |-> req])
          /\ UNCHANGED last

\* server.js:52-54 under 122-127: docRef.get() settles.
GetSchoolInfoGet(p) ==
    /\ At(p, "schoolInfo.get")
    /\ UNCHANGED <<build, outages, data, db, bucket, now>>
    /\ \/ /\ ~dbUp
          /\ Respond(procs[p].req, 500, FetchFailed)
          /\ Finish(p)
       \/ /\ dbUp
          /\ db.school.exists
          /\ Respond(procs[p].req, 200, db.school.fields)
          /\ Finish(p)
       \/ /\ dbUp
          /\ ~db.school.exists
          /\ Suspend(p, [procs[p] EXCEPT !.pc = "schoolInfo.set"])
          /\ UNCHANGED last

\* server.js:54-55 under 122-127: docRef.set(data.school) settles.
GetSchoolInfoSet(p) ==
    /\ At(p, "schoolInfo.set")
    /\ UNCHANGED <<build, outages, data, bucket, now>>
    /\ Finish(p)
    /\ \/ /\ ~dbUp
          /\ Respond(procs[p].req, 500, FetchFailed)
          /\ UNCHANGED db
       \/ /\ dbUp
          /\ db' = SettingsSet(db, data.school)
          /\ Respond(procs[p].req, 200, data.school)

\* PATCH /api/admin/update-school-info (index.js:88-105, server.js:131-172).
UpdateSchoolInfo(p, req) ==
    /\ At(p, "idle")
    /\ UNCHANGED <<build, outages, db, bucket>>
    /\ \/ /\ ~isPersistent
          /\ UNCHANGED procs
          /\ IF req.file = NoFile
             THEN /\ data' = updateSchoolData(data, NameUpdates(req))
                  /\ UNCHANGED now
             ELSE \E t \in ClockRange :
                  /\ ReadClock(t)
                  /\ data' = updateSchoolData(data,
                         ObjectAssign(NameUpdates(req),
                                      [schoolLogo |-> LogoMockUrl(req.file.originalname, t)]))
          /\ Respond(req, 200, SchoolUpdated(getSchoolData(data')))
       \/ /\ isPersistent
          /\ UNCHANGED <<data, last>>
          /\ IF req.file = NoFile
             THEN /\ Suspend(p, [pc |-> "updateSchool.merge", req |-> req,
                                 updates |-> NameUpdates(req)])
                  /\ UNCHANGED now
             ELSE \E t \in ClockRange :
                  /\ ReadClock(t)
                  /\ Suspend(p, [pc |-> "updateSchool.save", req |-> req,
                                 filename |-> LogoObjectName(req.file.originalname, t)])

\* server.js:143-147,156-160: file.save settles; after a rejection the logo is the
\* failure placeholder and the update goes on.
UpdateSchoolInfoSave(p) ==
    /\ At(p, "updateSchool.save")
    /\ UNCHANGED <<build, outages, data, db, last>>
    /\ \/ /\ storageUp
          /\ bucket' = bucket \cup {procs[p].filename}
          /\ Suspend(p, [procs[p] EXCEPT !.pc = "updateSchool.getSignedUrl"])
          /\ UNCHANGED now
       \/ /\ ~storageUp
          /\ UNCHANGED bucket
          /\ \E t \in ClockRange :
              /\ ReadClock(t)
              /\ Suspend(p, [pc |-> "updateSchool.merge", req |-> procs[p].req,
                             updates |-> ObjectAssign(NameUpdates(procs[p].req),
                                                      [schoolLogo |-> LogoFailedUrl(t)])])

\* server.js:149-160: getSignedUrl settles.
UpdateSchoolInfoSign(p) ==
    /\ At(p, "updateSchool.getSignedUrl")
    /\ UNCHANGED <<build, outages, data, db, bucket, last>>
    /\ \/ /\ storageUp
          /\ Suspend(p, [pc |-> "updateSchool.merge", req |-> procs[p].req,
                         updates |-> ObjectAssign(NameUpdates(procs[p].req),
                                         [schoolLogo |-> SignedUrl(procs[p].filename)])])
          /\ UNCHANGED now
       \/ /\ ~storageUp
          /\ \E t \in ClockRange :
              /\ ReadClock(t)
              /\ Suspend(p, [pc |-> "updateSchool.merge", req |-> procs[p].req,
                             updates |-> ObjectAssign(NameUpdates(procs[p].req),
                                                      [schoolLogo |-> LogoFailedUrl(t)])])

\* server.js:59 under 166-171: set(updates, { merge: true }) settles.
UpdateSchoolInfoMerge(p) ==
    /\ At(p, "updateSchool.merge")
    /\ UNCHANGED <<build, outages, data, bucket, now>>
    /\ \/ /\ ~dbUp
          /\ Respond(procs[p].req, 500, UpdateFailed)
          /\ Finish(p)
          /\ UNCHANGED db
       \/ /\ dbUp
          /\ db' = SettingsMerge(db, procs[p].updates)
          /\ Suspend(p, [pc |-> "updateSchool.get", req |-> procs[p].req])
          /\ UNCHANGED last

\* server.js:60 with 52-54 under 166-171: getSchoolData's docRef.get() settles.
\* The merge has written the document and nothing deletes it, so the snapshot
\* exists and getSchoolData does not go on to write the defaults.
UpdateSchoolInfoGet(p) ==
    /\ At(p, "updateSchool.get")
    /\ UNCHANGED <<build, outages, data, db, bucket, now>>
    /\ Finish(p)
    /\ \/ /\ ~dbUp
          /\ Respond(procs[p].req, 500, UpdateFailed)
       \/ /\ dbUp
          /\ db.school.exists
          /\ Respond(procs[p].req, 200, SchoolUpdated(db.school.fields))

-----------------------------------------------------------------------------
(* The specifications *)

\* The ids a request can name: the ids the clock can give, and one never given.
ItemIds == {NowString(t) : t \in ClockRange} \cup {"404"}

\* The task routes, one request at a time.
NextTasks ==
    \/ StoreOutage
    \/ \E p \in Slots, body \in {TaskBody("5", "B", LoggedIn)} \cup InvalidTaskBodies :
           Create(p, "tasks", [op |-> "createTask"] @@ body)
    \/ \E p \in Slots : CreateInsert(p)
    \/ \E p \in Slots : List(p, "tasks", [op |-> "listTasks"])
    \/ \E p \in Slots : ListGet(p)
    \/ \E p \in Slots, g \in {"5", "6"} :
           ListStudent(p, "tasks", [op |-> "listTasksStudent", grade |-> g, classLetter |-> "b"])
    \/ \E p \in Slots : ListStudentGet(p)
    \/ \E p \in Slots, id \in ItemIds : ToggleDone(p, [op |-> "toggleDone", id |-> id])
    \/ \E p \in Slots : ToggleDoneGet(p)
    \/ \E p \in Slots : ToggleDoneUpdate(p)
    \/ \E p \in Slots, id \in ItemIds : Delete(p, "tasks", [op |-> "deleteTask", id |-> id])
    \/ \E p \in Slots : DeleteDelete(p)

SpecTasks == Init /\ [][NextTasks]_vars

\* The bodies of POST /api/upload.
UploadBody(teacherId, grade, classLetter, file) ==
    [teacherId |-> teacherId, grade |-> grade, classLetter |-> classLetter, file |-> file]
TheFile == UploadedFile("my notes.pdf")
InvalidUploadBodies ==
    {UploadBody("1", "5", "a", NoFile), UploadBody(Undefined, "5", "a", TheFile)}

\* What the student pages can ask for.
StudentQueries == [grade : {"5", "6"}, classLetter : {"A", "b", Undefined}]

\* The records of collection c that the running build holds.
Stored(c) ==
    CASE c = "teachers" -> IF isPersistent THEN db.users ELSE data.teachers
      [] c = "school" -> IF isPersistent THEN db.school ELSE data.school
      [] OTHER -> IF isPersistent THEN db[c] ELSE data[c]

LogoNames == {"logo.png"}
LogoObjectNames == {LogoObjectName(n, t) : n \in LogoNames, t \in ClockRange}

\* The part of the stores that the routes of domain c work on is as it was when
\* the module was loaded.
Fresh(c) ==
    CASE c = "teachers" -> Stored(c) = IF isPersistent THEN InitialDb.users
                                       ELSE InitialData.teachers
      [] c = "school" -> /\ Stored(c) = IF isPersistent THEN InitialDb.school
                                        ELSE InitialData.school
                         /\ bucket \cap LogoObjectNames = {}
      [] c = "uploads" -> Len(Stored(c)) = 0 /\ bucket \cap ObjectNames = {}
      [] OTHER -> Len(Stored(c)) = 0

Domains == {"teachers", "tasks", "announcements", "uploads", "school"}

\* Each behaviour works on one domain: a route touches the records of its own
\* domain only, so the domains are explored one after the other and not in
\* combination.
OnlyIn(c) == \A o \in Domains \ {c} : Fresh(o)

\* Creations for every grade and class, and the three student listings.
NextListing ==
    \/ \E p \in Slots, g \in {"5", "all"}, cl \in {"a", "B"} :
           /\ OnlyIn("tasks")
           /\ Create(p, "tasks", [op |-> "createTask"] @@ TaskBody(g, cl, LoggedIn))
    \/ \E p \in Slots, g \in {"5", "6"}, cl \in {"b", "all"} :
           /\ OnlyIn("announcements")
           /\ Create(p, "announcements",
                     [op |-> "createAnnouncement"] @@ AnnouncementBody(g, cl, LoggedIn))
    \/ \E p \in Slots : CreateInsert(p)
    \/ \E p \in Slots, g \in {"6", Undefined}, cl \in {"A", Undefined} :
           /\ OnlyIn("uploads")
           /\ Upload(p, [op |-> "upload"] @@ UploadBody("1", g, cl, TheFile))
    \/ \E p \in Slots : UploadSave(p)
    \/ \E p \in Slots : UploadSign(p)
    \/ \E p \in Slots : UploadInsert(p)
    \/ \E p \in Slots, q \in StudentQueries, c \in {"tasks", "announcements", "uploads"} :
           ListStudent(p, c, [op |-> "listStudent", c |-> c] @@ q)
    \/ \E p \in Slots : ListStudentGet(p)

SpecListing == Init /\ [][NextListing]_vars

\* Two register requests in flight at once.
NextRegister ==
    \/ \E p \in Slots, req \in RegisterBodies : Register(p, [op |-> "register"] @@ req)
    \/ \E p \in Slots : RegisterLookup(p)
    \/ \E p \in Slots : RegisterInsert(p)

SpecRegister == InitConcurrent /\ [][NextRegister]_vars

\* Creations and deletions in the three collections, the stores going away and
\* coming back.
NextDelete ==
    \/ StoreOutage
    \/ BlobOutage
    \/ \E p \in Slots : Create(p, "tasks", [op |-> "createTask"] @@ TaskBody("5", "B", LoggedIn))
    \/ \E p \in Slots :
           Create(p, "announcements",
                  [op |-> "createAnnouncement"] @@ AnnouncementBody("5", "all", LoggedIn))
    \/ \E p \in Slots : CreateInsert(p)
    \/ \E p \in Slots : Upload(p, [op |-> "upload"] @@ UploadBody("1", "5", "B", TheFile))
    \/ \E p \in Slots : UploadSave(p)
    \/ \E p \in Slots : UploadSign(p)
    \/ \E p \in Slots : UploadInsert(p)
    \/ \E p \in Slots, id \in ItemIds :
           Delete(p, "tasks", [op |-> "delete", c |-> "tasks", id |-> id])
    \/ \E p \in Slots, id \in ItemIds :
           Delete(p, "announcements", [op |-> "delete", c |-> "announcements", id |-> id])
    \/ \E p \in Slots, id \in ItemIds :
           Delete(p, "uploads", [op |-> "delete", c |-> "uploads", id |-> id])
    \/ \E p \in Slots, id \in ItemIds :
           DeleteUpload(p, [op |-> "delete", c |-> "uploads", id |-> id])
    \/ \E p \in Slots : DeleteUploadGet(p)
    \/ \E p \in Slots : DeleteUploadBlob(p)
    \/ \E p \in Slots : DeleteDelete(p)

SpecDelete == Init /\ [][NextDelete]_vars

\* The bodies of PATCH /api/admin/update-school-info.
SchoolBodies ==
    [schoolName : {"Trio", Undefined},
     file : {UploadedFile(n) : n \in LogoNames} \cup {NoFile}]

NextSchool ==
    \/ StoreOutage
    \/ BlobOutage
    \/ \E p \in Slots : GetSchoolInfo(p, [op |-> "getSchoolInfo"])
    \/ \E p \in Slots : GetSchoolInfoGet(p)
    \/ \E p \in Slots : GetSchoolInfoSet(p)
    \/ \E p \in Slots, body \in SchoolBodies :
           UpdateSchoolInfo(p, [op |-> "updateSchoolInfo"] @@ body)
    \/ \E p \in Slots : UpdateSchoolInfoSave(p)
    \/ \E p \in Slots : UpdateSchoolInfoSign(p)
    \/ \E p \in Slots : UpdateSchoolInfoMerge(p)
    \/ \E p \in Slots : UpdateSchoolInfoGet(p)

SpecSchool == Init /\ [][NextSchool]_vars

\* Every route, one request at a time.
Next ==
    \/ StoreOutage
    \/ BlobOutage
    \/ \E p \in Slots :
           OnlyIn("school") /\ GetSchoolInfo(p, [op |-> "getSchoolInfo"])
    \/ \E p \in Slots : GetSchoolInfoGet(p)
    \/ \E p \in Slots : GetSchoolInfoSet(p)
    \/ \E p \in Slots, body \in SchoolBodies :
           OnlyIn("school") /\ UpdateSchoolInfo(p, [op |-> "updateSchoolInfo"] @@ body)
    \/ \E p \in Slots : UpdateSchoolInfoSave(p)
    \/ \E p \in Slots : UpdateSchoolInfoSign(p)
    \/ \E p \in Slots : UpdateSchoolInfoMerge(p)
    \/ \E p \in Slots : UpdateSchoolInfoGet(p)
    \/ \E p \in Slots, req \in RegisterBodies :
           OnlyIn("teachers") /\ Register(p, [op |-> "register"] @@ req)
    \/ \E p \in Slots : RegisterLookup(p)
    \/ \E p \in Slots : RegisterInsert(p)
    \/ \E p \in Slots, req \in LoginBodies :
           OnlyIn("teachers") /\ Login(p, [op |-> "login"] @@ req)
    \/ \E p \in Slots : LoginLookup(p)
    \/ \E p \in Slots, req \in ResetBodies :
           OnlyIn("teachers") /\ ResetPassword(p, [op |-> "reset-teacher-password"] @@ req)
    \/ \E p \in Slots : ResetLookup(p)
    \/ \E p \in Slots : ResetUpdate(p)
    \/ \E p \in Slots, body \in {TaskBody("5", "B", LoggedIn)} \cup InvalidTaskBodies :
           OnlyIn("tasks") /\ Create(p, "tasks", [op |-> "createTask"] @@ body)
    \/ \E p \in Slots,
          body \in {AnnouncementBody("5", "all", LoggedIn)} \cup InvalidAnnouncementBodies :
           /\ OnlyIn("announcements")
           /\ Create(p, "announcements", [op |-> "createAnnouncement"] @@ body)
    \/ \E p \in Slots : CreateInsert(p)
    \/ \E p \in Slots, c \in {"tasks", "announcements"} :
           OnlyIn(c) /\ List(p, c, [op |-> "list", c |-> c])
    \/ \E p \in Slots : ListGet(p)
    \/ \E p \in Slots, c \in {"tasks", "announcements", "uploads"} :
           /\ OnlyIn(c)
           /\ ListStudent(p, c, [op |-> "listStudent", c |-> c, grade |-> "5",
                                 classLetter |-> "b"])
    \/ \E p \in Slots : ListStudentGet(p)
    \/ \E p \in Slots, id \in ItemIds :
           OnlyIn("tasks") /\ ToggleDone(p, [op |-> "toggleDone", id |-> id])
    \/ \E p \in Slots : ToggleDoneGet(p)
    \/ \E p \in Slots : ToggleDoneUpdate(p)
    \/ \E p \in Slots, id \in ItemIds, c \in {"tasks", "announcements", "uploads"} :
           OnlyIn(c) /\ Delete(p, c, [op |-> "delete", c |-> c, id |-> id])
    \/ \E p \in Slots, id \in ItemIds :
           OnlyIn("uploads") /\ DeleteUpload(p, [op |-> "delete", c |-> "uploads", id |-> id])
    \/ \E p \in Slots : DeleteUploadGet(p)
    \/ \E p \in Slots : DeleteUploadBlob(p)
    \/ \E p \in Slots : DeleteDelete(p)
    \/ \E p \in Slots, body \in {UploadBody("1", "5", "B", TheFile)} \cup InvalidUploadBodies :
           OnlyIn("uploads") /\ Upload(p, [op |-> "upload"] @@ body)
    \/ \E p \in Slots : UploadSave(p)
    \/ \E p \in Slots : UploadSign(p)
    \/ \E p \in Slots : UploadInsert(p)
    \/ \E p \in Slots, teacherId \in {"1", Undefined} :
           OnlyIn("uploads") /\ ListUploads(p, [op |-> "listUploads", teacherId |-> teacherId])
    \/ \E p \in Slots : ListUploadsGet(p)

Spec == Init /\ [][Next]_vars

\* The routes that validate their input, one request at a time.
NextValidation ==
    \/ StoreOutage
    \/ \E p \in Slots, req \in RegisterBodies :
           OnlyIn("teachers") /\ Register(p, [op |-> "register"] @@ req)
    \/ \E p \in Slots : RegisterLookup(p)
    \/ \E p \in Slots : RegisterInsert(p)
    \/ \E p \in Slots, req \in LoginBodies :
           OnlyIn("teachers") /\ Login(p, [op |-> "login"] @@ req)
    \/ \E p \in Slots : LoginLookup(p)
    \/ \E p \in Slots, req \in ResetBodies :
           OnlyIn("teachers") /\ ResetPassword(p, [op |-> "reset-teacher-password"] @@ req)
    \/ \E p \in Slots : ResetLookup(p)
    \/ \E p \in Slots : ResetUpdate(p)
    \/ \E p \in Slots, body \in {TaskBody("5", "B", LoggedIn)} \cup InvalidTaskBodies :
           OnlyIn("tasks") /\ Create(p, "tasks", [op |-> "createTask"] @@ body)
    \/ \E p \in Slots,
          body \in {AnnouncementBody("5", "all", LoggedIn)} \cup InvalidAnnouncementBodies :
           /\ OnlyIn("announcements")
           /\ Create(p, "announcements", [op |-> "createAnnouncement"] @@ body)
    \/ \E p \in Slots : CreateInsert(p)
    \/ \E p \in Slots, id \in ItemIds :
           OnlyIn("tasks") /\ ToggleDone(p, [op |-> "toggleDone", id |-> id])
    \/ \E p \in Slots : ToggleDoneGet(p)
    \/ \E p \in Slots : ToggleDoneUpdate(p)
    \/ \E p \in Slots, body \in {UploadBody("1", "5", "B", TheFile)} \cup InvalidUploadBodies :
           OnlyIn("uploads") /\ Upload(p, [op |-> "upload"] @@ body)
    \/ \E p \in Slots : UploadSave(p)
    \/ \E p \in Slots : UploadSign(p)
    \/ \E p \in Slots : UploadInsert(p)

SpecValidation == Init /\ [][NextValidation]_vars

\* Two upload requests in flight at once, the stores going away and coming back.
NextUpload ==
    \/ StoreOutage
    \/ BlobOutage
    \/ \E p \in Slots,
          body \in {UploadBody("1", g, g, TheFile) : g \in {"5", Undefined}}
                       \cup InvalidUploadBodies :
           Upload(p, [op |-> "upload"] @@ body)
    \/ \E p \in Slots : UploadSave(p)
    \/ \E p \in Slots : UploadSign(p)
    \/ \E p \in Slots : UploadInsert(p)

SpecUpload == InitConcurrent /\ [][NextUpload]_vars

\* Two task requests in flight at once: creations for two grades, toggles and
\* deletions.
NextRace ==
    \/ \E p \in Slots, g \in {"5", "6"} :
           Create(p, "tasks", [op |-> "createTask"] @@ TaskBody(g, "B", LoggedIn))
    \/ \E p \in Slots : CreateInsert(p)
    \/ \E p \in Slots, id \in ItemIds : ToggleDone(p, [op |-> "toggleDone", id |-> id])
    \/ \E p \in Slots : ToggleDoneGet(p)
    \/ \E p \in Slots : ToggleDoneUpdate(p)
    \/ \E p \in Slots, id \in ItemIds : Delete(p, "tasks", [op |-> "deleteTask", id |-> id])
    \/ \E p \in Slots : DeleteDelete(p)

SpecRace == InitConcurrent /\ [][NextRace]_vars

-----------------------------------------------------------------------------
(* What the claims speak about *)

\* The teachers the running build works on.
Teachers == IF isPersistent THEN db.users ELSE data.teachers

\* This step completes an exchange of the given operation.
Completes(op) == last'.seq # last.seq /\ last'.req.op = op

\* The store calls of a handler settling in this step succeed.
StoreAnswers == ~isPersistent \/ dbUp

\* No stored teacher has the email.
NoSuchTeacher(email) == \A i \in 1..Len(Teachers) : Teachers[i].email # email

\* The teacher found for the email has another password.
WrongPassword(email, password) ==
    \E i \in 1..Len(Teachers) :
        /\ Teachers[i].email = email
        /\ \A j \in 1..(i - 1) : Teachers[j].email # email
        /\ Teachers[i].password # password

\* The tasks the running build works on, and the done field of the task a
\* lookup by id finds.
Tasks == IF isPersistent THEN db.tasks ELSE data.tasks
HasItem(items, id) == \E i \in 1..Len(items) : items[i].id = id
DoneOf(items, id) == items[findIndex(items, "id", id)].done

-----------------------------------------------------------------------------
(* C1 *)

\* The records a student listing shall return, as the claim words it.
Listed(items, grade, classLetter) ==
    filter(items,
           {i \in 1..Len(items) :
               /\ items[i].grade = grade \/ items[i].grade = "all"
               /\ \/ toUpperCase(items[i].classLetter)
                        = toUpperCase(IF classLetter = Undefined THEN "" ELSE classLetter)
                  \/ items[i].classLetter = "all"})

\* C1: each student listing (tasks, announcements, uploads) answers with exactly
\* the stored records of its collection, in stored order, whose grade equals the
\* queried grade or is "all" and whose class letter equals the queried one
\* whatever the case, or is "all"; a missing class letter counts as "".
StudentListingExact ==
    [][Completes("listStudent")
       => LET c == last'.req.c
              answered == IF c = "uploads" THEN last'.body.files ELSE last'.body.array
          IN  /\ last'.status = 200
              /\ answered = Listed(Stored(c), last'.req.grade, last'.req.classLetter)]_vars

\* A listing for class "A" has answered with a task of class "a" and has left out
\* a task of class "B".
ListedWhateverTheCase ==
    /\ last.req.op = "listStudent"
    /\ last.req.c = "tasks"
    /\ last.req.classLetter = "A"
    /\ Len(Stored("tasks")) = 2
    /\ \E i \in 1..2 : Stored("tasks")[i].classLetter = "B"
    /\ Len(last.body.array) = 1
    /\ last.body.array[1].classLetter = "a"

-----------------------------------------------------------------------------
(* C2 *)

\* C2: whatever register and reset-password requests came before, the user object
\* of a successful login response has no password key.
LoginNeverLeaksPassword ==
    (last.req.op = "login" /\ "user" \in DOMAIN last.body)
        => "password" \notin DOMAIN last.body.user

\* A login that succeeds with a password only a reset can have set.
LoginSucceedsAfterReset ==
    /\ last.req.op = "login"
    /\ "user" \in DOMAIN last.body
    /\ last.req.email = "teacher@school.com"
    /\ last.req.password = "p"
    /\ last.body.user.email = "teacher@school.com"

-----------------------------------------------------------------------------
(* C3 *)

\* C3: a login for an email no teacher has and a login with a wrong password for
\* a stored email are both answered 200 {error: 'Invalid credentials'}, and
\* neither changes a store.
InvalidCredentialsUniform ==
    [][(/\ Completes("login")
        /\ StoreAnswers
        /\ \/ NoSuchTeacher(last'.req.email)
           \/ WrongPassword(last'.req.email, last'.req.password))
       => /\ last'.status = 200
          /\ last'.body = [error |-> "Invalid credentials"]
          /\ UNCHANGED <<data, db, bucket>>]_vars

\* A login with a wrong password has been refused for a teacher who registered.
WrongPasswordRefused ==
    /\ last.req.op = "login"
    /\ last.req.email = "a@x.com"
    /\ last.req.password = "password123"
    /\ ~NoSuchTeacher("a@x.com")
    /\ "error" \in DOMAIN last.body

-----------------------------------------------------------------------------
(* C4 *)

\* C4: a register request with all three fields answers 'Email already exists'
\* and leaves the teachers as they are when its lookup finds a teacher with that
\* email; and every answer 'Teacher registered!' comes with exactly one teacher
\* more in the store, the teachers stored before all still there.
RegisterAppendsOne ==
    [][Completes("register")
       => LET req == last'.req
              looksUp == ~isPersistent
                         \/ \E p \in Slots : procs[p].pc = "register.getTeacherByEmail"
          IN  /\ (/\ looksUp
                  /\ StoreAnswers
                  /\ ~Falsy(req.name) /\ ~Falsy(req.email) /\ ~Falsy(req.password)
                  /\ ~NoSuchTeacher(req.email))
                 => /\ last'.body = [error |-> "Email already exists"]
                    /\ Teachers' = Teachers
              /\ last'.body = [message |-> "Teacher registered!"]
                 => /\ Len(Teachers') = Len(Teachers) + 1
                    /\ \A i \in 1..Len(Teachers) :
                           \E j \in 1..Len(Teachers') : Teachers'[j] = Teachers[i]
                    /\ \E j \in 1..Len(Teachers') : Teachers'[j].email = req.email]_vars

-----------------------------------------------------------------------------
(* C5 *)

\* C5: a toggle-done of a stored task stores the negated done value and echoes
\* it; when the exchange before it was a toggle-done of the same task, with no
\* other request in between, this second toggle stores and echoes the value the
\* task had before the first (the negation of what the first echoed).
ToggleTwiceRestores ==
    [][(Completes("toggleDone") /\ "done" \in DOMAIN last'.body)
       => /\ HasItem(Tasks, last'.req.id)
          /\ last'.body.done = ~DoneOf(Tasks, last'.req.id)
          /\ DoneOf(Tasks', last'.req.id) = ~DoneOf(Tasks, last'.req.id)
          /\ (/\ last.req.op = "toggleDone"
              /\ last.req.id = last'.req.id
              /\ "done" \in DOMAIN last.body)
             => /\ last'.body.done = ~last.body.done
                /\ DoneOf(Tasks', last'.req.id) = ~last.body.done]_vars

\* A toggle has answered done: false: the task had been toggled to true before.
ToggledBack ==
    /\ last.req.op = "toggleDone"
    /\ last.status = 200
    /\ "done" \in DOMAIN last.body
    /\ last.body.done = FALSE
    /\ HasItem(Tasks, last.req.id)
    /\ DoneOf(Tasks, last.req.id) = FALSE

-----------------------------------------------------------------------------
(* C6 *)

\* The call settling in this step is the store's delete call, and it fails.
DeleteCallFails ==
    /\ isPersistent
    /\ ~dbUp
    /\ \E p \in Slots : procs[p].pc = "delete.deleteCollectionItem"

\* C6: a delete request for an id that its collection (tasks, announcements,
\* uploads) does not hold is answered with the success message of the route and
\* changes no collection, unless the delete call of the store fails.
DeleteOfAbsentSucceeds ==
    [][(/\ Completes("delete")
        /\ ~HasItem(Stored(last'.req.c), last'.req.id)
        /\ ~DeleteCallFails)
       => /\ last'.status = 200
          /\ last'.body = [message |-> DeletedText(last'.req.c)]
          /\ data' = data
          /\ db' = db]_vars

-----------------------------------------------------------------------------
(* C7 *)

\* C7: after DELETE /api/task/:id has answered with its success message, no task
\* with that id is in the tasks collection.
DeletedTaskIsGone ==
    [][(Completes("deleteTask") /\ last'.status = 200) => ~HasItem(Tasks', last'.req.id)]_vars

-----------------------------------------------------------------------------
(* C8 *)

\* The settings as get-school-info answers them.
SchoolView ==
    IF isPersistent /\ db.school.exists THEN db.school.fields ELSE data.school

\* This step is the settings write of an update-school-info request with the body.
SchoolWrite(body) ==
    \/ /\ ~isPersistent
       /\ Completes("updateSchoolInfo")
       /\ last'.req = [op |-> "updateSchoolInfo"] @@ body
    \/ /\ isPersistent
       /\ dbUp
       /\ \E p \in Slots : /\ procs[p].pc = "updateSchool.merge"
                           /\ procs[p].req = [op |-> "updateSchoolInfo"] @@ body
                           /\ procs'[p].pc = "updateSchool.get"

\* C8: the write of an update-school-info request without a file leaves
\* schoolLogo as it was, of one without schoolName leaves schoolName as it was,
\* of one with neither leaves the settings as they were; and the school object of
\* the answer is the settings after the write.
PartialUpdateKeepsTheRest ==
    [][/\ \A body \in SchoolBodies :
              SchoolWrite(body)
              => /\ body.file = NoFile
                    => Get(SchoolView', "schoolLogo") = Get(SchoolView, "schoolLogo")
                 /\ Falsy(body.schoolName)
                    => Get(SchoolView', "schoolName") = Get(SchoolView, "schoolName")
                 /\ (body.file = NoFile /\ Falsy(body.schoolName))
                    => SchoolView' = SchoolView
       /\ (Completes("updateSchoolInfo") /\ last'.status = 200)
          => last'.body.school = SchoolView']_vars

-----------------------------------------------------------------------------
(* C9 *)

\* The request fails a validation the claim lists, in the state it is handled in.
ValidationFailure(req) ==
    CASE req.op = "register" ->
             \/ Falsy(req.name) \/ Falsy(req.email) \/ Falsy(req.password)
             \/ ~NoSuchTeacher(req.email)
      [] req.op = "login" ->
             NoSuchTeacher(req.email) \/ WrongPassword(req.email, req.password)
      [] req.op = "reset-teacher-password" -> NoSuchTeacher(req.email)
      [] req.op = "createTask" ->
             \/ \E k \in {"grade", "classLetter", "subject", "description", "dueDate"} :
                    Falsy(req[k])
             \/ \E k \in {"id", "name"} : Falsy(Get(req.teacher, k))
      [] req.op = "createAnnouncement" ->
             \/ \E k \in {"grade", "classLetter", "message"} : Falsy(req[k])
             \/ Falsy(Get(req.teacher, "id"))
      [] req.op = "toggleDone" -> ~HasItem(Tasks, req.id)
      [] req.op = "upload" -> req.file = NoFile \/ Falsy(req.teacherId)
      [] OTHER -> FALSE

\* C9: when the store answers the handler's lookup, a request that fails one of
\* these validations is answered with status 200 and a body holding error only,
\* and nothing changes in the collections, the settings or the bucket.
ValidationFailuresAnswered ==
    [][(last'.seq # last.seq /\ StoreAnswers /\ ValidationFailure(last'.req))
       => /\ last'.status = 200
          /\ DOMAIN last'.body = {"error"}
          /\ data' = data
          /\ db' = db
          /\ bucket' = bucket]_vars

\* On the document store, a toggle-done of an id that no stored task has, has
\* been answered 'Task not found'.
UnknownTaskRefused ==
    /\ isPersistent
    /\ last.req.op = "toggleDone"
    /\ Len(Tasks) > 0
    /\ ~HasItem(Tasks, last.req.id)
    /\ last.status = 200
    /\ last.body = [error |-> "Task not found"]

-----------------------------------------------------------------------------
(* C10 *)

\* C10: on the document store, an exchange that ends in the step where a store
\* call of its handler fails ends with status 500 and a body holding error only
\* (and so never without a response).
StoreFailuresAnswered ==
    [][(/\ last'.seq # last.seq
        /\ isPersistent
        /\ ~dbUp
        /\ \E p \in Slots : procs[p].pc # "idle")
       => /\ last'.status = 500
          /\ DOMAIN last'.body = {"error"}]_vars

-----------------------------------------------------------------------------
(* C11 *)

\* C11: the blob release step of delete-upload ends no exchange (its failure is
\* not answered to the caller); every delete-upload exchange on the document
\* store ends in the step where the metadata deletion settles, so the deletion
\* has been attempted for the requested id; and status 500 is answered only when
\* that deletion fails.
DeleteUploadFailsOnlyOnDelete ==
    [][/\ (Completes("delete") /\ last'.req.c = "uploads")
          => /\ isPersistent
                => \E p \in Slots : /\ procs[p].pc = "delete.deleteCollectionItem"
                                    /\ procs[p].req.id = last'.req.id
             /\ last'.status = 500 => DeleteCallFails
             /\ last'.status \in {200, 500}
       /\ \A p \in Slots : procs[p].pc = "deleteUpload.storageDelete" => last' = last]_vars

-----------------------------------------------------------------------------
(* C12 *)

\* The upload record is the one the request asks for.
RecordOf(r, req) ==
    /\ r.teacherId = req.teacherId
    /\ r.originalName = req.file.originalname
    /\ r.grade = (IF req.grade = Undefined THEN "all" ELSE req.grade)
    /\ r.classLetter = (IF req.classLetter = Undefined THEN "all" ELSE req.classLetter)
    /\ \/ \E n \in FileNames, t \in ClockRange : r.filename = MockFileUrl(n, t)
       \/ /\ isPersistent
          /\ \E o \in ObjectNames : r.filename = SignedUrl(o) /\ o \in bucket

\* C12: an upload request with a file and a teacherId, when the metadata insert
\* settles, is answered with the success message, and the uploads collection then
\* holds exactly one record more: the records it held, and the record of the
\* request, with "all" for an omitted grade or classLetter and with the
\* placeholder URL unless the blob store has taken the file.
UploadStoresOne ==
    [][(/\ Completes("upload")
        /\ last'.req.file # NoFile
        /\ ~Falsy(last'.req.teacherId)
        /\ StoreAnswers)
       => /\ last'.status = 200
          /\ last'.body = [message |-> "File uploaded successfully!"]
          /\ Len(Stored("uploads")') = Len(Stored("uploads")) + 1
          /\ \A i \in 1..Len(Stored("uploads")) :
                 \E j \in 1..Len(Stored("uploads")') :
                     Stored("uploads")'[j] = Stored("uploads")[i]
          /\ \E j \in 1..Len(Stored("uploads")') :
                 RecordOf(Stored("uploads")'[j], last'.req)]_vars

-----------------------------------------------------------------------------
(* C13 *)

\* The password of the teacher a lookup by email finds.
PasswordOf(teachers, email) == teachers[findIndex(teachers, "email", email)].password

\* C13: a reset-password request that names the email of a stored teacher and a
\* new password, when its store calls settle, is answered with the success
\* message and leaves the teacher with the new password; a login for that email
\* that comes next succeeds with the new password and is refused with any other.
ResetThenLogin ==
    [][/\ (/\ Completes("reset-teacher-password")
           /\ StoreAnswers
           /\ ~NoSuchTeacher(last'.req.email)
           /\ ~Falsy(last'.req.newPassword))
          => /\ last'.status = 200
             /\ last'.body = [message |-> "Password for " \o last'.req.email
                                             \o " reset successfully!"]
             /\ PasswordOf(Teachers', last'.req.email) = last'.req.newPassword
       /\ (/\ Completes("login")
           /\ StoreAnswers
           /\ last.req.op = "reset-teacher-password"
           /\ last.status = 200
           /\ "message" \in DOMAIN last.body
           /\ last'.req.email = last.req.email)
          => ("user" \in DOMAIN last'.body <=> last'.req.password = last.req.newPassword)]_vars

-----------------------------------------------------------------------------
(* C14 *)

\* index.js:108-122 on the data d: the status and body index.js answers to a
\* reset-password request, and the data it leaves.
IndexJsReset(d, req) ==
    LET teacher == getTeacherByEmail(d, req.email)
    IN  IF teacher = <<>>
        THEN [status |-> 200, body |-> [error |-> "Teacher not found"], data |-> d]
        ELSE [status |-> 200, body |-> ResetMessage(req.email),
              data |-> updateCollectionItem(d, "teachers", teacher[1].id,
                                            [password |-> req.newPassword])]

\* C14: server.js on its in-memory fallback answers every request as index.js
\* does from the same data, and leaves the same data.  On the fallback path the
\* handlers and helpers of the two files are the same code except for the
\* collection name reset-password passes on, so the claim comes down to: every
\* reset-password exchange of the fallback has the status, the body and the
\* resulting data that index.js gives.
FallbackAnswersAsIndexJs ==
    [][(app = "server.js" /\ ~isPersistent /\ Completes("reset-teacher-password"))
       => /\ last'.status = IndexJsReset(data, last'.req).status
          /\ last'.body = IndexJsReset(data, last'.req).body
          /\ data' = IndexJsReset(data, last'.req).data]_vars

-----------------------------------------------------------------------------
(* C15 *)

\* The task that a create request asks for: done = false, the teacher's id and
\* name only, the other fields as sent.
CreatedFrom(task, req) ==
    /\ task.done = FALSE
    /\ task.teacher = [id |-> req.teacher.id, name |-> req.teacher.name]
    /\ task.grade = req.grade
    /\ task.classLetter = req.classLetter
    /\ task.subject = req.subject
    /\ task.description = req.description
    /\ task.dueDate = req.dueDate

\* C15: a task enters the tasks collection only as the answer to a create
\* request, stored with done = false and the teacher's {id, name}; and a stored
\* task stays exactly as it is in every step, except that a toggle-done of its id
\* may change its done field (and nothing else) and a delete of its id may remove
\* it.
TasksKeepTheirFields ==
    [][/\ \A j \in 1..Len(Tasks') :
              \/ \E i \in 1..Len(Tasks) :
                     WithoutKey(Tasks[i], "done") = WithoutKey(Tasks'[j], "done")
              \/ Completes("createTask") /\ CreatedFrom(Tasks'[j], last'.req)
       /\ \A i \in 1..Len(Tasks) :
              \/ \E j \in 1..Len(Tasks') : Tasks'[j] = Tasks[i]
              \/ /\ Completes("toggleDone")
                 /\ last'.req.id = Tasks[i].id
                 /\ \E j \in 1..Len(Tasks') :
                        WithoutKey(Tasks[i], "done") = WithoutKey(Tasks'[j], "done")
              \/ Completes("deleteTask") /\ last'.req.id = Tasks[i].id]_vars

-----------------------------------------------------------------------------
(* C16 *)

\* C16: in every reachable state no two stored teachers have the same email.
EmailsUnique ==
    \A i, j \in 1..Len(Teachers) : Teachers[i].email = Teachers[j].email => i = j

-----------------------------------------------------------------------------
(* C17 *)

\* The toggle-done request in slot p has read the task and is about to write
\* newDoneState, and the exchange that ended last is another toggle-done of the
\* same task that has answered that same value: both have read the same done.
ReadTheSame(p) ==
    /\ procs[p].pc = "toggle.updateCollectionItem"
    /\ last.req.op = "toggleDone"
    /\ last.req.id = procs[p].req.id
    /\ "done" \in DOMAIN last.body
    /\ last.body.done = procs[p].newDoneState
    /\ HasItem(Tasks, last.req.id)

\* C17: when two toggle-done requests have read the same done value of a task and
\* one has written and answered, the write of the other, once it settles, leaves
\* the task with the value the first one wrote and answers that same value: the
\* task is not flipped back (the second flip is lost).
LostUpdate ==
    [][\A p \in Slots :
           (ReadTheSame(p) /\ dbUp /\ procs'[p].pc = "idle")
           => /\ last'.body = [message |-> "Task updated!", done |-> last.body.done]
              /\ DoneOf(Tasks', last.req.id) = last.body.done
              /\ DoneOf(Tasks', last.req.id) = DoneOf(Tasks, last.req.id)]_vars

\* Both toggles have read done = false; one has written true and has answered
\* done: true, the other is about to write true.
BothReadFalse ==
    \E p \in Slots :
        /\ ReadTheSame(p)
        /\ procs[p].newDoneState = TRUE
        /\ DoneOf(Tasks, last.req.id) = TRUE

-----------------------------------------------------------------------------
(* C18 *)

\* C18: in every reachable state no two items of one collection (teachers,
\* tasks, announcements, uploads) have the same id.
IdsUnique ==
    \A c \in {"teachers", "tasks", "announcements", "uploads"} :
        \A i, j \in 1..Len(Stored(c)) : Stored(c)[i].id = Stored(c)[j].id => i = j

-----------------------------------------------------------------------------
(* C19 *)

\* C19: on the document store the settings helpers act on the settings as the
\* in-memory helpers act on data.school, an absent document standing for the
\* defaults.  Step by step: the write of updateSchoolData leaves the settings the
\* in-memory Object.assign would leave; getSchoolData answers the settings and
\* does not change them; updateSchoolData answers the settings after its write;
\* and the answers always hold both schoolName and schoolLogo.
SettingsAsInMemory ==
    [][isPersistent
       => /\ \A p \in Slots :
                 (procs[p].pc = "updateSchool.merge" /\ procs'[p].pc = "updateSchool.get")
                 => SchoolView' = getSchoolData(updateSchoolData(
                                      [school |-> SchoolView], procs[p].updates))
          /\ (Completes("getSchoolInfo") /\ last'.status = 200)
             => /\ last'.body = SchoolView
                /\ SchoolView' = SchoolView
                /\ DOMAIN last'.body = {"schoolName", "schoolLogo"}
          /\ (Completes("updateSchoolInfo") /\ last'.status = 200)
             => /\ last'.body.school = SchoolView'
                /\ DOMAIN last'.body.school = {"schoolName", "schoolLogo"}]_vars

-----------------------------------------------------------------------------
(* C20 *)

\* The record but for its password.
WithoutPassword(teacher) == [k \in DOMAIN teacher \ {"password"} |-> teacher[k]]

\* C20: a reset-password request for an email that is answered with the success
\* message leaves as many teachers as before, changes nothing of a teacher with
\* another email, and leaves the id, name and email of the teacher with that
\* email as they were, whatever registrations came before.
ResetChangesOnlyPassword ==
    [][(/\ Completes("reset-teacher-password")
        /\ last'.status = 200
        /\ "message" \in DOMAIN last'.body)
       => /\ Len(Teachers') = Len(Teachers)
          /\ \A i \in 1..Len(Teachers) :
                 IF Teachers[i].email = last'.req.email
                 THEN WithoutPassword(Teachers'[i]) = WithoutPassword(Teachers[i])
                 ELSE Teachers'[i] = Teachers[i]]_vars

-----------------------------------------------------------------------------
(* C21 *)

\* C21: after any register and reset-password requests every stored teacher has
\* a password that is present and not empty, and a login request without a
\* password field is never answered with a user.
PasswordsPresent ==
    [][/\ \A i \in 1..Len(Teachers') : ~Falsy(Teachers'[i].password)
       /\ (Completes("login") /\ last'.req.password = Undefined)
          => "user" \notin DOMAIN last'.body]_vars

-----------------------------------------------------------------------------
(* C22 *)

\* The toggle-done request of p has read the task of that id and has not yet
\* written.
ToggleInFlight(p, id) ==
    procs[p].pc = "toggle.updateCollectionItem" /\ procs[p].req.id = id

\* C22: a delete-task request for an id that completes while a toggle-done
\* request for that id has read the task and not yet written leaves no task of
\* that id; the write of the toggle then finds no task, changes nothing and is
\* answered 500; and a task of an id that was not stored appears only in a step
\* that completes a create. So the task stays deleted until a create inserts it.
ToggleNeverRecreates ==
    [][/\ (/\ Completes("deleteTask")
           /\ last'.status = 200
           /\ \E p \in Slots : ToggleInFlight(p, last'.req.id))
          => ~HasItem(Tasks', last'.req.id)
       /\ \A p \in Slots :
              (/\ procs[p].pc = "toggle.updateCollectionItem"
               /\ procs'[p].pc = "idle"
               /\ ~HasItem(Tasks, procs[p].req.id))
              => /\ Tasks' = Tasks
                 /\ last'.status = 500
                 /\ last'.body = ToggleFailed
       /\ \A id \in ItemIds :
              (HasItem(Tasks', id) /\ ~HasItem(Tasks, id)) => Completes("createTask")]_vars

\* The toggle has written after the delete completed: the store was answering,
\* the toggle was refused and the task is still absent.
ToggleAfterDeleteRefused ==
    /\ isPersistent
    /\ dbUp
    /\ last.req.op = "toggleDone"
    /\ last.status = 500
    /\ ~HasItem(Tasks, last.req.id)
    /\ \A p \in Slots : procs[p].pc = "idle"

====
